---- MODULE Spec2Model ----
(***************************************************************************)
(* EventPool (weak-event-pool): a static publish/subscribe registry.       *)
(*                                                                         *)
(*   events     : Map<string, Map<symbol, WeakRef<Handler>>>               *)
(*   handlerMap : Map<string, Map<Handler, symbol>>                        *)
(*                                                                         *)
(* The outer maps are functions whose DOMAIN is the set of keys present.   *)
(* The inner maps are sequences of entries in insertion order, which is    *)
(* the iteration order of a JavaScript Map.  A Symbol is a natural number  *)
(* taken from a counter, so that an inner subscription map is always in    *)
(* increasing id order and a live Map iterator is "the first entry whose   *)
(* id is greater than the last one visited".                               *)
(*                                                                         *)
(* Handlers are heap objects.  The memory manager may reclaim an object    *)
(* only when nothing holds it strongly: no variable of the caller, no key  *)
(* of a handlerMap (a Map holds its keys strongly), no running call, no    *)
(* closure of a reachable once-wrapper.  A WeakRef does not count.         *)
(***************************************************************************)
EXTENDS Naturals, Sequences, FiniteSets

\* ---------------------------------------------------------------- bounds
MaxIds == 3        \* symbols minted by on() in one run
MaxActs == 1       \* API calls made by running handlers during one top-level emit

Events == {"e1", "e2"}           \* event names used by the caller
HandlerNames == {"h1", "h2"}     \* the caller's handler functions
OnceEvents == {"e1"}             \* event names used with once()
Args == {"a", "b"}               \* emitted arguments
Ids == 1..MaxIds
ForeignId == 0                   \* a Symbol that on() never returned

\* ---------------------------------------------------------------- objects
\* A caller-supplied function.
Fn(n) == [kind |-> "fn", name |-> n, ev |-> "-", k |-> 0]
\* The closure `onceHandler` made by once(event, handler); k tells closures apart.
Wrapper(e, n, k) == [kind |-> "once", name |-> n, ev |-> e, k |-> k]
\* No function: `undefined`.
Undefined == [kind |-> "none", name |-> "-", ev |-> "-", k |-> 0]

VARIABLES
  events,      \* EventPool.events
  handlerMap,  \* EventPool.handlerMap
  nextId,      \* the next Symbol
  held,        \* names of the handlers the caller's variables still reference
  reclaimed,   \* handler objects the memory manager has reclaimed
  stack,       \* the emit() calls in progress, innermost last
  threw,       \* the last API call raised
  lastOp,      \* history: the last API call (recorded by Spec only)
  emission,    \* history: the current or most recent top-level emit()
  fired        \* history: ids of the once-wrappers that have invoked their
               \* handler and that a table or a running emit() still refers to

vars == <<events, handlerMap, nextId, held, reclaimed, stack, threw, lastOp,
          emission, fired>>

\* ---------------------------------------------------------------- history records
\* An API call: its name, its arguments (for on and once, id is the Symbol
\* returned) and n, the number of subscription entries it deleted.  An
\* offById(id) that comes immediately after the on(ev, h) that returned id
\* carries ev and h; immediately after the once(ev, h) that returned id it
\* carries ev, and "-" for h.  For a
\* sweepDeadHandlers() that comes immediately after another one, ev is "again"
\* and id is the number of entries that the one before deleted.
Op(o, e, h, id, n) == [op |-> o, ev |-> e, h |-> h, id |-> id, n |-> n]
NoOp == Op("none", "-", "-", 0, 0)
\* A top-level emit(ev, arg): prev is the on, off, offById, removeAll or
\* removeAllListeners call that came immediately before it (NoOp otherwise;
\* n is kept for the last two only), purged the number of entries its
\* clean pass deleted, start the table after the clean pass, acts the number
\* of API calls made by the handlers it ran, removed the ids whose entries
\* those handlers deleted with off or offById, skipped whether its loop met a
\* WeakRef that did not resolve, calls the handler calls made so far.
NoEmission ==
  [ev |-> "-", arg |-> "-", prev |-> NoOp, purged |-> 0, start |-> <<>>, acts |-> 0,
   removed |-> {}, skipped |-> FALSE, calls |-> <<>>]

\* ---------------------------------------------------------------- Map helpers
MapPut(f, key, v) == [x \in (DOMAIN f) \cup {key} |-> IF x = key THEN v ELSE f[x]]
MapDel(f, key) == [x \in (DOMAIN f) \ {key} |-> f[x]]
EmptyMap == [x \in {} |-> <<>>]

\* Map<symbol, WeakRef>.has / .set / .delete
EventMapHas(m, id) == \E i \in 1..Len(m) : m[i].id = id
EventMapSet(m, id, ref) ==
  IF EventMapHas(m, id)
  THEN [i \in 1..Len(m) |-> IF m[i].id = id THEN [id |-> id, ref |-> ref] ELSE m[i]]
  ELSE Append(m, [id |-> id, ref |-> ref])
EventMapDelete(m, id) == SelectSeq(m, LAMBDA en : en.id # id)
EventMapGet(m, id) == m[CHOOSE i \in 1..Len(m) : m[i].id = id].ref

\* Map<Handler, symbol>.has / .get / .set / .delete
HandlerMapHas(m, h) == \E i \in 1..Len(m) : m[i].h = h
HandlerMapGet(m, h) == m[CHOOSE i \in 1..Len(m) : m[i].h = h].id
HandlerMapSet(m, h, id) ==
  IF HandlerMapHas(m, h)
  THEN [i \in 1..Len(m) |-> IF m[i].h = h THEN [h |-> h, id |-> id] ELSE m[i]]
  ELSE Append(m, [h |-> h, id |-> id])
HandlerMapDelete(m, h) == SelectSeq(m, LAMBDA en : en.h # h)

\* The Symbols that are keys of some subscription table of ev.
IdsOf(ev) == UNION {{ev[e][i].id : i \in 1..Len(ev[e])} : e \in DOMAIN ev}

\* Mutant: the reference resolves although its target was reclaimed.
DerefStale(ref) == ref

\* WeakRef.deref()
Deref(ref) == IF ref \in reclaimed THEN Undefined ELSE ref

\* ---------------------------------------------------------------- the code
\* Mutant: for each dead id the first reverse entry is deleted, whatever its id.
RECURSIVE DeleteReverseAnyId(_, _)
DeleteReverseAnyId(hm, deadIds) ==
  IF deadIds = <<>> THEN hm
  ELSE DeleteReverseAnyId(IF hm = <<>> THEN hm ELSE Tail(hm), Tail(deadIds))

\* cleanDeadHandlers, second loop: for each dead id, the first reverse entry
\* whose value is that id is deleted.
RECURSIVE DeleteReverse(_, _)
DeleteReverse(hm, deadIds) ==
  IF deadIds = <<>> THEN hm
  ELSE LET hit == {i \in 1..Len(hm) : hm[i].id = Head(deadIds)}
           first == CHOOSE i \in hit : \A j \in hit : i <= j
           hm1 == IF hit = {} THEN hm
                  ELSE [j \in 1..(Len(hm) - 1) |-> IF j < first THEN hm[j] ELSE hm[j + 1]]
       IN DeleteReverse(hm1, Tail(deadIds))

\* Mutant: the dead subscription entries are left in the event's map.
CleanDeadHandlersKeepsEntries(ev, hm, e) ==
  IF e \notin DOMAIN ev \/ e \notin DOMAIN hm
  THEN [events |-> ev, handlerMap |-> hm]
  ELSE LET dead == SelectSeq(ev[e], LAMBDA en : Deref(en.ref) = Undefined)
           deadIds == [i \in 1..Len(dead) |-> dead[i].id]
       IN [events |-> ev,
           handlerMap |-> [hm EXCEPT ![e] = DeleteReverse(@, deadIds)]]

\* cleanDeadHandlers(event)
CleanDeadHandlers(ev, hm, e) ==
  IF e \notin DOMAIN ev \/ e \notin DOMAIN hm
  THEN [events |-> ev, handlerMap |-> hm]
  ELSE LET dead == SelectSeq(ev[e], LAMBDA en : Deref(en.ref) = Undefined)
           deadIds == [i \in 1..Len(dead) |-> dead[i].id]
           deadSet == {dead[i].id : i \in 1..Len(dead)}
       IN [events |-> [ev EXCEPT ![e] = SelectSeq(@, LAMBDA en : en.id \notin deadSet)],
           handlerMap |-> [hm EXCEPT ![e] = DeleteReverse(@, deadIds)]]

\* Mutant: on() reuses the smallest Symbol that no subscription table holds.
OnOpRecycledId(ev, hm, e, h, id) ==
  LET used == UNION {{ev[x][i].id : i \in 1..Len(ev[x])} : x \in DOMAIN ev}
      free == CHOOSE k \in 1..id : k \notin used /\ \A j \in 1..(k - 1) : j \in used
      ev1 == IF e \in DOMAIN ev THEN ev ELSE MapPut(ev, e, <<>>)
      hm1 == IF e \in DOMAIN hm THEN hm ELSE MapPut(hm, e, <<>>)
  IN [events |-> [ev1 EXCEPT ![e] = EventMapSet(@, free, h)],
      handlerMap |-> [hm1 EXCEPT ![e] = HandlerMapSet(@, h, free)]]

\* on(event, handler), returning the Symbol id
OnOp(ev, hm, e, h, id) ==
  LET ev1 == IF e \in DOMAIN ev THEN ev ELSE MapPut(ev, e, <<>>)
      hm1 == IF e \in DOMAIN hm THEN hm ELSE MapPut(hm, e, <<>>)
  IN [events |-> [ev1 EXCEPT ![e] = EventMapSet(@, id, h)],
      handlerMap |-> [hm1 EXCEPT ![e] = HandlerMapSet(@, h, id)]]

\* Mutant: no test for the tables of the event; reading the missing map raises.
OffOpNoTableCheck(ev, hm, e, h) ==
  IF e \notin DOMAIN ev \/ e \notin DOMAIN hm
  THEN [events |-> ev, handlerMap |-> hm, threw |-> TRUE]
  ELSE IF ~HandlerMapHas(hm[e], h)
  THEN [events |-> ev, handlerMap |-> hm, threw |-> FALSE]
  ELSE [events |-> [ev EXCEPT ![e] = EventMapDelete(@, HandlerMapGet(hm[e], h))],
        handlerMap |-> [hm EXCEPT ![e] = HandlerMapDelete(@, h)],
        threw |-> FALSE]

\* off(event, handler)
OffOp(ev, hm, e, h) ==
  IF e \notin DOMAIN ev \/ e \notin DOMAIN hm
  THEN [events |-> ev, handlerMap |-> hm, threw |-> FALSE]
  ELSE IF ~HandlerMapHas(hm[e], h)
  THEN [events |-> ev, handlerMap |-> hm, threw |-> FALSE]
  ELSE [events |-> [ev EXCEPT ![e] = EventMapDelete(@, HandlerMapGet(hm[e], h))],
        handlerMap |-> [hm EXCEPT ![e] = HandlerMapDelete(@, h)],
        threw |-> FALSE]

\* Mutant: offById deletes the reverse entry and leaves the subscription entry.
OffByIdOpReverseOnly(ev, hm, id) ==
  IF \E e \in DOMAIN ev : EventMapHas(ev[e], id)
  THEN LET e == CHOOSE x \in DOMAIN ev : EventMapHas(ev[x], id)
           handler == Deref(EventMapGet(ev[e], id))
       IN [events |-> ev,
           handlerMap |-> IF handler # Undefined /\ e \in DOMAIN hm
                          THEN [hm EXCEPT ![e] = HandlerMapDelete(@, handler)]
                          ELSE hm,
           threw |-> FALSE]
  ELSE [events |-> ev, handlerMap |-> hm, threw |-> FALSE]

\* offById(eventId).  Symbols are minted once, so at most one event owns an id
\* and the order in which the outer map is scanned does not matter.
OffByIdOp(ev, hm, id) ==
  IF \E e \in DOMAIN ev : EventMapHas(ev[e], id)
  THEN LET e == CHOOSE x \in DOMAIN ev : EventMapHas(ev[x], id)
           handler == Deref(EventMapGet(ev[e], id))
       IN [events |-> [ev EXCEPT ![e] = EventMapDelete(@, id)],
           handlerMap |-> IF handler # Undefined /\ e \in DOMAIN hm
                          THEN [hm EXCEPT ![e] = HandlerMapDelete(@, handler)]
                          ELSE hm,
           threw |-> FALSE]
  ELSE [events |-> ev, handlerMap |-> hm, threw |-> FALSE]

\* Mutant: only the reverse table of the event is dropped.
RemoveAllListenersOpKeepsEvents(ev, hm, e) ==
  [events |-> ev, handlerMap |-> MapDel(hm, e), threw |-> FALSE]

\* removeAllListeners(event)
RemoveAllListenersOp(ev, hm, e) ==
  [events |-> MapDel(ev, e), handlerMap |-> MapDel(hm, e), threw |-> FALSE]

\* Mutant: in every event the sweep deletes the first dead entry only.
SweepOverFirstDead(ev, hm, todo) ==
  [events |-> [e \in DOMAIN ev |->
                 IF e \in todo /\ \E i \in 1..Len(ev[e]) : Deref(ev[e][i].ref) = Undefined
                 THEN LET first == CHOOSE i \in 1..Len(ev[e]) :
                                     /\ Deref(ev[e][i].ref) = Undefined
                                     /\ \A j \in 1..(i - 1) : Deref(ev[e][j].ref) # Undefined
                      IN EventMapDelete(ev[e], ev[e][first].id)
                 ELSE ev[e]],
   handlerMap |-> hm]

\* sweepDeadHandlers(): cleanDeadHandlers for every key of events
RECURSIVE SweepOver(_, _, _)
SweepOver(ev, hm, todo) ==
  IF todo = {} THEN [events |-> ev, handlerMap |-> hm]
  ELSE LET e == CHOOSE x \in todo : TRUE
           r == CleanDeadHandlers(ev, hm, e)
       IN SweepOver(r.events, r.handlerMap, todo \ {e})

\* ---------------------------------------------------------------- the heap
\* The once-wrappers that something holds strongly.
HeldWrappers ==
  {w \in UNION {{handlerMap[e][i].h : i \in 1..Len(handlerMap[e])} : e \in DOMAIN handlerMap}
         \cup {stack[i].run : i \in 1..Len(stack)} : w.kind = "once"}

\* x is reachable through strong references.
StronglyReachable(x) ==
  \/ x.kind = "fn" /\ x.name \in held
  \/ \E e \in DOMAIN handlerMap : HandlerMapHas(handlerMap[e], x)
  \/ \E i \in 1..Len(stack) : stack[i].run = x
  \/ x.kind = "fn" /\ \E w \in HeldWrappers : w.name = x.name

\* Mutant: emit() fetches the inner map of some event, not of its own.
TableOfAnyEvent(f) ==
  IF f.det THEN f.own ELSE events[CHOOSE e \in DOMAIN events : TRUE]

\* The map an emit() in progress iterates: the inner map it fetched, which is
\* still events[event] unless removeAll / removeAllListeners dropped that map
\* from the outer map since.
Table(f) == IF f.det THEN f.own ELSE events[f.ev]

\* The objects some WeakRef of the registry points to.
WeakTargets ==
  UNION {{events[e][i].ref : i \in 1..Len(events[e])} : e \in DOMAIN events}
  \cup UNION {{stack[j].own[i].ref : i \in 1..Len(stack[j].own)} : j \in 1..Len(stack)}

\* ---------------------------------------------------------------- who is calling
Top == stack[Len(stack)]
\* The caller's code runs: no emit() is in progress.
InCaller == stack = <<>>
\* A handler invoked by emit() runs and may still call the API.
InHandler == stack # <<>> /\ Top.run # Undefined /\ emission.acts < MaxActs
CanCall == InCaller \/ InHandler

\* history of an API call other than a top-level emit
Book == emission' = IF InCaller THEN NoEmission ELSE [emission EXCEPT !.acts = @ + 1]

\* history of an off or offById that deleted the entries of the ids in gone
BookRemoval(gone) ==
  emission' = IF InCaller THEN NoEmission
              ELSE [emission EXCEPT !.acts = @ + 1, !.removed = @ \cup gone]

\* The ids of the once-wrappers that a table or an emit() in progress refers to.
WrapperIds(ev, st) ==
  {w.k : w \in {x \in UNION {{ev[e][i].ref : i \in 1..Len(ev[e])} : e \in DOMAIN ev}
                      \cup UNION {{st[j].own[i].ref : i \in 1..Len(st[j].own)}
                                    : j \in 1..Len(st)}
                      \cup {st[j].run : j \in 1..Len(st)} : x.kind = "once"}}

\* The frames of emit() calls that iterate a map of one of the events in es
\* keep that map when the outer map drops it.
Detach(s, es) ==
  [i \in 1..Len(s) |->
     IF s[i].ev \in es /\ ~s[i].det /\ s[i].ev \in DOMAIN events
     THEN [s[i] EXCEPT !.det = TRUE, !.own = events[s[i].ev]]
     ELSE s[i]]

\* ---------------------------------------------------------------- actions
Init ==
  /\ events = EmptyMap
  /\ handlerMap = EmptyMap
  /\ nextId = 1
  /\ held = HandlerNames
  /\ reclaimed = {}
  /\ stack = <<>>
  /\ threw = FALSE
  /\ lastOp = NoOp
  /\ emission = NoEmission
  /\ fired = {}

On(e, h) ==
  /\ CanCall
  /\ h \in held
  /\ nextId <= MaxIds
  /\ LET r == OnOp(events, handlerMap, e, Fn(h), nextId)
     IN /\ events' = r.events
        /\ handlerMap' = r.handlerMap
  /\ nextId' = nextId + 1
  /\ threw' = FALSE
  /\ Book
  /\ UNCHANGED <<held, reclaimed, stack, fired>>

Once(e, h) ==
  /\ CanCall
  /\ h \in held
  /\ nextId <= MaxIds
  /\ LET r == OnOp(events, handlerMap, e, Wrapper(e, h, nextId), nextId)
     IN /\ events' = r.events
        /\ handlerMap' = r.handlerMap
  /\ nextId' = nextId + 1
  /\ threw' = FALSE
  /\ Book
  /\ UNCHANGED <<held, reclaimed, stack, fired>>

Off(e, h) ==
  /\ CanCall
  /\ h \in held
  /\ LET r == OffOp(events, handlerMap, e, Fn(h))
     IN /\ events' = r.events
        /\ handlerMap' = r.handlerMap
        /\ threw' = r.threw
        /\ BookRemoval(IdsOf(events) \ IdsOf(r.events))
  /\ fired' = fired \cap WrapperIds(events', stack)
  /\ UNCHANGED <<nextId, held, reclaimed, stack>>

OffById(id) ==
  /\ CanCall
  /\ id < nextId
  /\ LET r == OffByIdOp(events, handlerMap, id)
     IN /\ events' = r.events
        /\ handlerMap' = r.handlerMap
        /\ threw' = r.threw
        /\ BookRemoval(IdsOf(events) \ IdsOf(r.events))
  /\ fired' = fired \cap WrapperIds(events', stack)
  /\ UNCHANGED <<nextId, held, reclaimed, stack>>

RemoveAll ==
  /\ CanCall
  /\ events' = EmptyMap
  /\ handlerMap' = EmptyMap
  /\ stack' = Detach(stack, Events)
  /\ threw' = FALSE
  /\ fired' = fired \cap WrapperIds(events', stack')
  /\ Book
  /\ UNCHANGED <<nextId, held, reclaimed>>

RemoveAllListeners(e) ==
  /\ CanCall
  /\ LET r == RemoveAllListenersOp(events, handlerMap, e)
     IN /\ events' = r.events
        /\ handlerMap' = r.handlerMap
        /\ threw' = r.threw
  /\ stack' = Detach(stack, {e})
  /\ fired' = fired \cap WrapperIds(events', stack')
  /\ Book
  /\ UNCHANGED <<nextId, held, reclaimed>>

SweepDeadHandlers ==
  /\ CanCall
  /\ LET r == SweepOver(events, handlerMap, DOMAIN events)
     IN /\ events' = r.events
        /\ handlerMap' = r.handlerMap
  /\ threw' = FALSE
  /\ fired' = fired \cap WrapperIds(events', stack)
  /\ Book
  /\ UNCHANGED <<nextId, held, reclaimed, stack>>

\* emit(event, ...args) up to the start of its loop: the clean pass, the test
\* for the table, the iterator.
Emit(e, x) ==
  /\ CanCall
  /\ LET r == CleanDeadHandlers(events, handlerMap, e)
     IN /\ events' = r.events
        /\ handlerMap' = r.handlerMap
        /\ stack' = IF e \in DOMAIN r.events
                    THEN Append(stack, [ev |-> e, arg |-> x, pos |-> 0, det |-> FALSE,
                                        own |-> <<>>, run |-> Undefined])
                    ELSE stack
        /\ emission' = IF InCaller
                       THEN [ev |-> e, arg |-> x,
                             prev |-> IF lastOp.op \in {"on", "off", "offById"}
                                      THEN [lastOp EXCEPT !.n = 0]
                                      ELSE IF lastOp.op \in {"removeAll", "removeAllListeners"}
                                      THEN lastOp ELSE NoOp,
                             purged |-> IF e \in DOMAIN events
                                        THEN Len(events[e]) - Len(r.events[e]) ELSE 0,
                             start |-> IF e \in DOMAIN r.events THEN r.events[e] ELSE <<>>,
                             acts |-> 0, removed |-> {}, skipped |-> FALSE,
                             calls |-> <<>>]
                       ELSE [emission EXCEPT !.acts = @ + 1]
  /\ threw' = FALSE
  /\ fired' = fired \cap WrapperIds(events', stack')
  /\ UNCHANGED <<nextId, held, reclaimed>>

\* The entries the iterator of frame f has not visited yet.
Rest(f) == SelectSeq(Table(f), LAMBDA en : en.id > f.pos)

\* Mutant: the iterator yields the entry registered last.
NextEntryLast(f) == Rest(f)[Len(Rest(f))]

\* The entry the iterator of frame f yields next.
NextEntry(f) == Head(Rest(f))

\* The arguments emit() passes to a handler: `...args`.
CallArgs(f) == f.arg

\* One iteration of the loop of emit(): the next entry is dereferenced and,
\* if it resolves, the handler is called with the arguments of this emit.
EmitNext ==
  /\ stack # <<>>
  /\ Top.run = Undefined
  /\ Rest(Top) # <<>>
  /\ LET en == NextEntry(Top)
         handler == Deref(en.ref)
     IN IF handler = Undefined
        THEN /\ stack' = [stack EXCEPT ![Len(stack)].pos = en.id]
             /\ emission' = [emission EXCEPT !.skipped = TRUE]
             /\ fired' = fired
        ELSE /\ stack' = [stack EXCEPT ![Len(stack)].pos = en.id,
                                       ![Len(stack)].run = handler]
             /\ emission' = [emission EXCEPT !.calls =
                               Append(@, [id |-> en.id, ref |-> handler,
                                          arg |-> CallArgs(Top), lvl |-> Len(stack)])]
             /\ fired' = IF handler.kind = "once" THEN fired \cup {handler.k} ELSE fired
  /\ UNCHANGED <<events, handlerMap, nextId, held, reclaimed, threw, lastOp>>

\* The running handler returns.  A once-wrapper has called its handler and
\* now calls this.off(event, onceHandler).
HandlerReturn ==
  /\ stack # <<>>
  /\ Top.run # Undefined
  /\ LET r == IF Top.run.kind = "once"
              THEN OffOp(events, handlerMap, Top.run.ev, Top.run)
              ELSE [events |-> events, handlerMap |-> handlerMap, threw |-> FALSE]
     IN /\ events' = r.events
        /\ handlerMap' = r.handlerMap
  /\ stack' = [stack EXCEPT ![Len(stack)].run = Undefined]
  /\ fired' = fired \cap WrapperIds(events', stack')
  /\ UNCHANGED <<nextId, held, reclaimed, threw, lastOp, emission>>

\* The loop of emit() is over.
EmitReturn ==
  /\ stack # <<>>
  /\ Top.run = Undefined
  /\ Rest(Top) = <<>>
  /\ stack' = SubSeq(stack, 1, Len(stack) - 1)
  /\ fired' = fired \cap WrapperIds(events, stack')
  /\ UNCHANGED <<events, handlerMap, nextId, held, reclaimed, threw, lastOp, emission>>

\* The caller clears its variable that referenced handler h.
Drop(h) ==
  /\ InCaller
  /\ h \in held
  /\ held' = held \ {h}
  /\ UNCHANGED <<events, handlerMap, nextId, reclaimed, stack, threw, lastOp,
                 emission, fired>>

\* The memory manager reclaims an object that only WeakRefs point to.
Reclaim(x) ==
  /\ x \notin reclaimed
  /\ ~StronglyReachable(x)
  /\ reclaimed' = reclaimed \cup {x}
  /\ UNCHANGED <<events, handlerMap, nextId, held, stack, threw, lastOp,
                 emission, fired>>

\* What happens apart from API calls: the loop of emit(), the caller's
\* variables, the memory manager.
Internal ==
  \/ EmitNext
  \/ HandlerReturn
  \/ EmitReturn
  \/ \E h \in HandlerNames : Drop(h)
  \/ \E x \in WeakTargets : Reclaim(x)

\* The Symbols that have a subscription entry.
AllIds(ev) == UNION {{ev[e][i].id : i \in 1..Len(ev[e])} : e \in DOMAIN ev}
\* The number of subscription entries the step deletes.
Deleted == Cardinality(AllIds(events) \ AllIds(events'))

\* Spec: the handlers are plain functions that call nothing; every API call
\* comes from the caller and is recorded in lastOp.
Next ==
  \/ \E e \in Events, h \in HandlerNames :
       InCaller /\ On(e, h) /\ lastOp' = Op("on", e, h, nextId, 0)
  \/ \E e \in OnceEvents, h \in HandlerNames :
       InCaller /\ Once(e, h) /\ lastOp' = Op("once", e, h, nextId, 0)
  \/ \E e \in Events, h \in HandlerNames :
       InCaller /\ Off(e, h) /\ lastOp' = Op("off", e, h, 0, Deleted)
  \/ \E id \in {ForeignId} \cup Ids :
       /\ InCaller
       /\ OffById(id)
       /\ lastOp' = IF lastOp.op = "on" /\ lastOp.id = id
                    THEN Op("offById", lastOp.ev, lastOp.h, id, Deleted)
                    ELSE IF lastOp.op = "once" /\ lastOp.id = id
                    THEN Op("offById", lastOp.ev, "-", id, Deleted)
                    ELSE Op("offById", "-", "-", id, Deleted)
  \/ InCaller /\ RemoveAll /\ lastOp' = Op("removeAll", "-", "-", 0, Deleted)
  \/ \E e \in Events :
       /\ InCaller
       /\ RemoveAllListeners(e)
       /\ lastOp' = Op("removeAllListeners", e, "-", 0, Deleted)
  \/ InCaller /\ SweepDeadHandlers
       /\ lastOp' = IF lastOp.op = "sweepDeadHandlers"
                    THEN Op("sweepDeadHandlers", "again", "-", lastOp.n, Deleted)
                    ELSE Op("sweepDeadHandlers", "-", "-", 0, Deleted)
  \/ \E e \in Events, x \in Args :
       InCaller /\ Emit(e, x) /\ lastOp' = Op("emit", "-", "-", 0, 0)
  \/ Internal

Spec == Init /\ [][Next]_vars

\* SpecRe: a running handler may call the API itself (at most MaxActs calls
\* during one top-level emit); the call history lastOp is not recorded.
NextRe ==
  \/ \E e \in Events, h \in HandlerNames : On(e, h) /\ lastOp' = lastOp
  \/ \E e \in OnceEvents, h \in HandlerNames : Once(e, h) /\ lastOp' = lastOp
  \/ \E e \in Events, h \in HandlerNames : Off(e, h) /\ lastOp' = lastOp
  \/ \E id \in {ForeignId} \cup Ids : OffById(id) /\ lastOp' = lastOp
  \/ RemoveAll /\ lastOp' = lastOp
  \/ \E e \in Events : RemoveAllListeners(e) /\ lastOp' = lastOp
  \/ SweepDeadHandlers /\ lastOp' = lastOp
  \/ \E e \in Events, x \in Args : Emit(e, x) /\ lastOp' = lastOp
  \/ Internal

SpecRe == Init /\ [][NextRe]_vars

\* ================================================================ claims
\* A top-level emit() has returned (it is the last thing that happened).
EmitDone == stack = <<>> /\ emission.ev # "-"
\* No handler run by that emit() called the API.
Quiet == emission.acts = 0
\* The calls that emit() made to the caller's function h itself (calls made
\* by a once-wrapper of h are not counted).
DirectCalls(h) == {i \in 1..Len(emission.calls) : emission.calls[i].ref = Fn(h)}

\* ---------------------------------------------------------------- C1
\* C1 (as claimed): from any reachable state, on(E,H) followed immediately by
\* emit(E,x) invokes H exactly once, with x.
C1_OnThenEmitInvokesOnce ==
  (EmitDone /\ Quiet /\ emission.prev.op = "on" /\ emission.prev.ev = emission.ev)
    => /\ Cardinality(DirectCalls(emission.prev.h)) = 1
       /\ \A i \in DirectCalls(emission.prev.h) : emission.calls[i].arg = emission.arg

\* ---------------------------------------------------------------- C2
\* C2 (as claimed): after off(E,H), a subsequent emit(E,x) does not invoke H.
C2_OffThenEmitDoesNotInvoke ==
  (EmitDone /\ Quiet /\ emission.prev.op = "off" /\ emission.prev.ev = emission.ev)
    => DirectCalls(emission.prev.h) = {}

\* ---------------------------------------------------------------- C3
\* C3 (as claimed): a subscribed handler that the caller no longer references
\* is not kept reachable by the registry, so it may be reclaimed.
C3_RegistryHoldsNoStrongReference ==
  InCaller =>
    \A x \in WeakTargets :
      (x.kind = "fn" /\ x.name \notin held /\ x \notin reclaimed) => ~StronglyReachable(x)

\* ---------------------------------------------------------------- C4
\* Neither table of event e has an entry for object x.
NoEntryFor(ev, hm, e, x) ==
  /\ e \in DOMAIN ev => \A i \in 1..Len(ev[e]) : ev[e][i].ref # x
  /\ e \in DOMAIN hm => \A i \in 1..Len(hm[e]) : hm[e][i].h # x

\* C4: when a handler with a subscription entry has been reclaimed, then after
\* sweepDeadHandlers() no table of any event, and after the clean pass of
\* emit(E) no table of E, has an entry for it.
C4_SweepPurgesReclaimed ==
  [][ /\ SweepDeadHandlers =>
           \A x \in reclaimed : \A e \in Events : NoEntryFor(events', handlerMap', e, x)
      /\ \A e \in Events, a \in Args :
           Emit(e, a) => \A x \in reclaimed : NoEntryFor(events', handlerMap', e, x)
    ]_vars

\* A sweep has just deleted the entries of the reclaimed handlers.
C4_Witness ==
  /\ lastOp.op = "sweepDeadHandlers"
  /\ lastOp.n > 0
  /\ reclaimed # {}
  /\ WeakTargets \cap reclaimed = {}

\* ---------------------------------------------------------------- C5
\* C5: every call emit() makes targets a handler whose WeakRef resolved at
\* that moment: no reclaimed object is ever called, and no call raises.
C5_NoReclaimedHandlerInvoked ==
  [][ Len(emission'.calls) > Len(emission.calls) =>
        /\ emission'.calls[Len(emission'.calls)].ref \notin reclaimed
        /\ emission'.calls[Len(emission'.calls)].ref # Undefined
        /\ threw' = FALSE
    ]_vars

\* An emit() skipped an entry reclaimed after its clean pass and called another.
C5_Witness == EmitDone /\ emission.skipped /\ emission.calls # <<>>

\* ---------------------------------------------------------------- C6
\* C6 (as claimed): a once-wrapper invokes its handler at most once, also when
\* an emit is issued while the handler is running.
C6_OnceInvokedAtMostOnce ==
  [][ Len(emission'.calls) > Len(emission.calls) =>
        LET c == emission'.calls[Len(emission'.calls)]
        IN c.ref.kind = "once" => c.ref.k \notin fired
    ]_vars

\* ---------------------------------------------------------------- C7
\* C7 (as claimed): offById(id), for the id that on(E,H) just returned, leaves
\* the tables as off(E,H) would, and a subsequent emit(E,x) does not invoke H.
C7_OffByIdSameAsOff ==
  [][ /\ (lastOp.op = "on" /\ lastOp'.op = "offById" /\ lastOp'.id = lastOp.id) =>
           /\ events' = OffOp(events, handlerMap, lastOp.ev, Fn(lastOp.h)).events
           /\ handlerMap' = OffOp(events, handlerMap, lastOp.ev, Fn(lastOp.h)).handlerMap
      /\ (EmitDone' /\ Quiet' /\ emission'.prev.op = "offById"
            /\ emission'.prev.ev = emission'.ev) =>
           \A i \in 1..Len(emission'.calls) :
             emission'.calls[i].ref # Fn(emission'.prev.h)
    ]_vars

\* ---------------------------------------------------------------- C8
\* The ids of the subscription table, and the ids the reverse table maps to.
SubscriptionIds(e) == {events[e][i].id : i \in 1..Len(events[e])}
ReverseIds(e) == {handlerMap[e][i].id : i \in 1..Len(handlerMap[e])}

\* C8 (as claimed, I1): between API calls the two tables of every event hold
\* the same subscriptions: the same ids, and every subscription entry has the
\* reverse entry of its handler pointing to it.
C8_TablesAgree ==
  InCaller =>
    /\ DOMAIN events = DOMAIN handlerMap
    /\ \A e \in DOMAIN events :
         /\ SubscriptionIds(e) = ReverseIds(e)
         /\ \A i \in 1..Len(events[e]) :
              /\ HandlerMapHas(handlerMap[e], events[e][i].ref)
              /\ HandlerMapGet(handlerMap[e], events[e][i].ref) = events[e][i].id

\* ---------------------------------------------------------------- C9
\* The step leaves every table as it is and raises nothing.
TablesUntouched == events' = events /\ handlerMap' = handlerMap /\ threw' = FALSE

\* C9: off with an unknown event or a handler without reverse entry, offById
\* with an id no table holds, and removeAllListeners with an unknown event
\* change no table and do not raise.
C9_UnknownRemovalIsNoOp ==
  [][ /\ \A e \in Events, h \in HandlerNames :
           (Off(e, h) /\ (e \notin DOMAIN events
                            \/ ~HandlerMapHas(handlerMap[e], Fn(h)))) => TablesUntouched
      /\ \A id \in {ForeignId} \cup Ids :
           (OffById(id) /\ id \notin AllIds(events)) => TablesUntouched
      /\ \A e \in Events :
           (RemoveAllListeners(e) /\ e \notin DOMAIN events) => TablesUntouched
    ]_vars

\* off(E,H) was just called for an H without subscription to E, while E has
\* subscriptions of other handlers.
C9_Witness ==
  /\ lastOp.op = "off"
  /\ lastOp.n = 0
  /\ lastOp.ev \in DOMAIN events
  /\ events[lastOp.ev] # <<>>
  /\ \A i \in 1..Len(events[lastOp.ev]) : events[lastOp.ev][i].ref.name # lastOp.h
  /\ ~threw

\* ---------------------------------------------------------------- C10
\* C10: an emit() whose handlers call nothing has called, in registration
\* order and each with the arguments of the emit, exactly the handlers of the
\* entries that its clean pass left, except those reclaimed since.
C10_InvokedInRegistrationOrder ==
  (EmitDone /\ Quiet) =>
    LET calls == emission.calls
        start == emission.start
    IN /\ \A i \in 1..(Len(calls) - 1) : calls[i].id < calls[i + 1].id
       /\ \A i \in 1..Len(calls) :
            /\ calls[i].arg = emission.arg
            /\ \E j \in 1..Len(start) :
                 start[j].id = calls[i].id /\ start[j].ref = calls[i].ref
       /\ \A j \in 1..Len(start) :
            \/ \E i \in 1..Len(calls) : calls[i].id = start[j].id
            \/ start[j].ref \in reclaimed

\* An emit() has called two different handlers, and one of them twice.
C10_Witness ==
  /\ EmitDone
  /\ Len(emission.calls) = 3
  /\ emission.calls[1].ref # emission.calls[2].ref
  /\ emission.calls[1].ref = emission.calls[3].ref

\* ---------------------------------------------------------------- C11
\* The entries of a subscription table whose handler is alive, in table order.
LiveEntries(m) == SelectSeq(m, LAMBDA en : Deref(en.ref) # Undefined)
\* The entries of a reverse table whose handler is alive, in table order.
LiveReverse(m) == SelectSeq(m, LAMBDA en : Deref(en.h) # Undefined)

\* C11: sweepDeadHandlers() keeps every event, and in every event every
\* subscription entry whose handler is alive and every reverse entry of a
\* handler that is alive, each as it was and in the same order.
C11_SweepKeepsLiveSubscriptions ==
  [][ SweepDeadHandlers =>
        /\ DOMAIN events' = DOMAIN events
        /\ DOMAIN handlerMap' = DOMAIN handlerMap
        /\ \A e \in DOMAIN events :
             /\ LiveEntries(events'[e]) = LiveEntries(events[e])
             /\ \A i \in 1..Len(events[e]) :
                  Deref(events[e][i].ref) # Undefined =>
                    \E j \in 1..Len(events'[e]) : events'[e][j] = events[e][i]
        /\ \A e \in DOMAIN handlerMap :
             LiveReverse(handlerMap'[e]) = LiveReverse(handlerMap[e])
    ]_vars

\* A sweep has just deleted an entry of an event in which a live handler
\* keeps its subscription entry and its reverse entry.
C11_Witness ==
  /\ lastOp.op = "sweepDeadHandlers"
  /\ lastOp.n > 0
  /\ \E e \in DOMAIN events :
       /\ e \in DOMAIN handlerMap
       /\ \E i \in 1..Len(events[e]) :
            /\ events[e][i].ref \notin reclaimed
            /\ HandlerMapHas(handlerMap[e], events[e][i].ref)
            /\ HandlerMapGet(handlerMap[e], events[e][i].ref) = events[e][i].id
            /\ \E x \in reclaimed : x.name # events[e][i].ref.name

\* ---------------------------------------------------------------- C12
\* C12: sweepDeadHandlers() is idempotent: a second sweep, run on the tables
\* that a sweep leaves and with nothing reclaimed in between, leaves them as
\* they are.
C12_SweepIdempotent ==
  [][ SweepDeadHandlers =>
        LET again == SweepOver(events', handlerMap', DOMAIN events')
        IN /\ again.events = events'
           /\ again.handlerMap = handlerMap'
    ]_vars

\* Two sweeps in a row: the first deleted entries, the second none, and
\* subscriptions remain.
C12_Witness ==
  /\ lastOp.op = "sweepDeadHandlers"
  /\ lastOp.ev = "again"
  /\ lastOp.id > 0
  /\ lastOp.n = 0
  /\ \E e \in DOMAIN events : events[e] # <<>>

\* ---------------------------------------------------------------- C13
\* C13: emit(E) for an event without tables changes no table, raises nothing
\* and returns at once without calling a handler; after removeAll() no event
\* has tables, and after removeAllListeners(E) event E has none.
C13_EmitWithoutTablesIsNoOp ==
  [][ \A e \in Events, a \in Args :
        Emit(e, a) =>
          /\ (lastOp.op = "removeAll" => e \notin DOMAIN events)
          /\ ((lastOp.op = "removeAllListeners" /\ lastOp.ev = e) => e \notin DOMAIN events)
          /\ e \notin DOMAIN events =>
               /\ TablesUntouched
               /\ stack' = stack
               /\ EmitDone'
               /\ emission'.calls = <<>>
    ]_vars

\* An emit(E) that came right after a removeAllListeners(E) or removeAll()
\* that deleted subscriptions has returned.
C13_Witness ==
  /\ EmitDone
  /\ lastOp.op = "emit"
  /\ emission.prev.n > 0
  /\ \/ emission.prev.op = "removeAllListeners" /\ emission.prev.ev = emission.ev
     \/ emission.prev.op = "removeAll"
  /\ emission.calls = <<>>
  /\ ~threw

\* ---------------------------------------------------------------- C14
\* The Symbols issued so far.
Issued == 1..(nextId - 1)
\* The number of subscription entries of all events.
RECURSIVE EntryCount(_, _)
EntryCount(ev, todo) ==
  IF todo = {} THEN 0
  ELSE LET e == CHOOSE x \in todo : TRUE
       IN Len(ev[e]) + EntryCount(ev, todo \ {e})

\* C14 (I2): on and once add exactly one subscription entry, under the id they
\* return, and that id is none of the ids issued before, removed or not; no
\* id has two subscription entries; offById with an issued id whose
\* subscription is gone changes no table and raises nothing.
C14_IdsNeverReused ==
  [][ /\ \A e \in Events, h \in HandlerNames :
           (On(e, h) \/ Once(e, h)) =>
             LET new == AllIds(events') \ AllIds(events)
             IN /\ Cardinality(new) = 1
                /\ new \cap Issued = {}
                /\ new = {lastOp'.id}
                /\ Issued' = Issued \cup new
      /\ EntryCount(events', DOMAIN events') = Cardinality(AllIds(events'))
      /\ AllIds(events') \subseteq Issued'
      /\ \A id \in Ids :
           (OffById(id) /\ id \in Issued /\ id \notin AllIds(events)) => TablesUntouched
    ]_vars

\* on or once has just returned a fresh id although an id issued before it
\* has no subscription any more.
C14_Witness ==
  /\ lastOp.op \in {"on", "once"}
  /\ lastOp.id \in AllIds(events)
  /\ \E i \in 1..(lastOp.id - 1) : i \notin AllIds(events)

\* ---------------------------------------------------------------- C15
\* The once-wrappers that have a subscription entry under id.
WrappersAt(ev, id) ==
  {w \in UNION {{ev[e][i].ref : i \in 1..Len(ev[e])} : e \in DOMAIN ev} :
     w.kind = "once" /\ w.k = id}

\* C15: offById(id) for the id of a once-wrapper that no emit has reached
\* deletes the wrapper's subscription entry and its reverse entry; an id
\* without subscription entry never gets one again; every call of an emit is
\* the call of a handler that has a subscription entry at that moment; so no
\* later emit calls the wrapper, and the emit that comes right after the
\* offById has not called it.
C15_OffByIdCancelsOnce ==
  [][ /\ \A id \in Ids :
           (OffById(id) /\ WrappersAt(events, id) # {} /\ id \notin fired) =>
             /\ id \notin AllIds(events')
             /\ \A w \in WrappersAt(events, id) : \A e \in DOMAIN handlerMap' :
                  ~HandlerMapHas(handlerMap'[e], w)
      /\ (AllIds(events') \cap Issued) \subseteq AllIds(events)
      /\ Len(emission'.calls) > Len(emission.calls) =>
           LET c == emission'.calls[Len(emission'.calls)]
           IN \E e \in DOMAIN events : \E i \in 1..Len(events[e]) :
                events[e][i].id = c.id /\ events[e][i].ref = c.ref
      /\ (EmitDone' /\ emission'.prev.op = "offById" /\ emission'.prev.h = "-"
            /\ emission'.prev.ev = emission'.ev) =>
           \A i \in 1..Len(emission'.calls) : emission'.calls[i].id # emission'.prev.id
    ]_vars

\* The emit(E) that came right after once(E,H) and offById of its id has
\* returned: it called the other handlers of E and not the wrapper.
C15_Witness ==
  /\ EmitDone
  /\ emission.prev.op = "offById"
  /\ emission.prev.h = "-"
  /\ emission.prev.ev = emission.ev
  /\ emission.calls # <<>>
  /\ \A i \in 1..Len(emission.calls) : emission.calls[i].id # emission.prev.id
  /\ emission.prev.id \notin AllIds(events)

\* ---------------------------------------------------------------- C16
\* C16 (as claimed): the loop of a top-level emit(E) is not disturbed by the
\* handlers it runs: whatever they subscribe during the emit, it calls only
\* handlers of the subscriptions E had when it began, so the number of its
\* invocations is bounded by that table and the emit terminates.
C16_EmitRunsOverInitialTable ==
  \A i \in 1..Len(emission.calls) :
    emission.calls[i].lvl = 1 =>
      \E j \in 1..Len(emission.start) : emission.start[j].id = emission.calls[i].id

\* ---------------------------------------------------------------- C17
\* The subscription entries of event e that no reverse entry points to.
Orphans(e) ==
  {i \in 1..Len(events[e]) :
     ~\E j \in 1..Len(handlerMap[e]) : handlerMap[e][j].id = events[e][i].id}

\* C17 (as claimed): a subscription entry that lost its reverse entry, because
\* its handler was subscribed to the same event again, is purged by the next
\* sweep: after sweepDeadHandlers() no subscription table holds an entry
\* without reverse entry.
C17_SweepPurgesOrphans ==
  lastOp.op = "sweepDeadHandlers" =>
    \A e \in DOMAIN events : e \in DOMAIN handlerMap => Orphans(e) = {}

\* ---------------------------------------------------------------- C18
\* C18 (as claimed): between API calls an event name is a key of the registry
\* only while it has at least one subscription: no row is left with an empty
\* subscription table.
C18_NoEmptyTables ==
  InCaller => \A e \in DOMAIN events : events[e] # <<>>

\* ---------------------------------------------------------------- C19
\* The reverse entries of table m that belong to a subscription other than id.
ReverseOfOthers(m, id) == SelectSeq(m, LAMBDA en : en.id # id)

\* C19 (as claimed): offById(id) removes the subscription id and nothing else:
\* in every event the subscription entries and the reverse entries of the
\* other ids are after the call what they were before it.
C19_OffByIdRemovesOnlyThatId ==
  [][ \A id \in {ForeignId} \cup Ids :
        OffById(id) =>
          /\ DOMAIN events' = DOMAIN events
          /\ DOMAIN handlerMap' = DOMAIN handlerMap
          /\ \A e \in DOMAIN events : events'[e] = EventMapDelete(events[e], id)
          /\ \A e \in DOMAIN handlerMap :
               ReverseOfOthers(handlerMap'[e], id) = ReverseOfOthers(handlerMap[e], id)
    ]_vars

\* ---------------------------------------------------------------- C20
\* C20 (as claimed): when a running handler has removed, with off or offById,
\* a subscription of the event that the loop of the emit had not reached yet,
\* the loop does not call that subscription's handler from then on; and the
\* loop calls no subscription twice.
C20_RemovedDuringEmitNotInvoked ==
  [][ Len(emission'.calls) > Len(emission.calls) =>
        LET c == emission'.calls[Len(emission'.calls)]
            reached(id) == \E i \in 1..Len(emission.calls) :
                             emission.calls[i].lvl = 1 /\ emission.calls[i].id = id
        IN c.lvl = 1 =>
             /\ ~reached(c.id)
             /\ \A j \in 1..Len(emission.start) :
                  (emission.start[j].id \in emission.removed
                     /\ ~reached(emission.start[j].id))
                    => c.ref # emission.start[j].ref
    ]_vars

\* ---------------------------------------------------------------- C21
\* The step leaves both tables of event e as they are, present or not.
RowUntouched(e) ==
  /\ (e \in DOMAIN events') = (e \in DOMAIN events)
  /\ (e \in DOMAIN handlerMap') = (e \in DOMAIN handlerMap)
  /\ e \in DOMAIN events => events'[e] = events[e]
  /\ e \in DOMAIN handlerMap => handlerMap'[e] = handlerMap[e]

\* C21: on, once, off, emit and removeAllListeners for event E, and every
\* step of the loop of emit(E) whose handlers call nothing, leave both tables
\* of every other event as they are; every call of emit(E) is the call of a
\* handler that has a subscription entry under E.
C21_EventsIsolated ==
  [][ /\ \A e \in Events :
           (\/ \E h \in HandlerNames : On(e, h) \/ Once(e, h) \/ Off(e, h)
            \/ \E a \in Args : Emit(e, a)
            \/ RemoveAllListeners(e))
             => \A e2 \in Events \ {e} : RowUntouched(e2)
      /\ (EmitNext \/ HandlerReturn \/ EmitReturn) =>
           \A e2 \in Events \ {Top.ev} : RowUntouched(e2)
      /\ Len(emission'.calls) > Len(emission.calls) =>
           LET c == emission'.calls[Len(emission'.calls)]
           IN /\ emission.ev \in DOMAIN events
              /\ \E i \in 1..Len(events[emission.ev]) :
                   /\ events[emission.ev][i].id = c.id
                   /\ events[emission.ev][i].ref = c.ref
    ]_vars

\* off(E,H) has just removed the subscription of H to E, and H keeps its
\* subscription entry and its reverse entry under another event.
C21_Witness ==
  /\ lastOp.op = "off"
  /\ lastOp.n = 1
  /\ \E e2 \in (DOMAIN events) \ {lastOp.ev} :
       /\ e2 \in DOMAIN handlerMap
       /\ HandlerMapHas(handlerMap[e2], Fn(lastOp.h))
       /\ \E i \in 1..Len(events[e2]) :
            /\ events[e2][i].ref = Fn(lastOp.h)
            /\ events[e2][i].id = HandlerMapGet(handlerMap[e2], Fn(lastOp.h))

====
